---- MODULE Spec2Model ----
(***************************************************************************)
(* A model of libre-nes: the 6502-like Processor (src/src/processor.cpp)   *)
(* on the Emulator bus (src/src/emulator.cpp).  Registers keep their       *)
(* widths: 8-bit values are kept modulo 256, 16-bit values modulo 65536.   *)
(***************************************************************************)
EXTENDS Integers, Sequences, FiniteSets, TLC

VARIABLES
    acc,         \* uint8_t  Processor::acc
    x,           \* uint8_t  Processor::x
    y,           \* uint8_t  Processor::y
    pc,          \* uint16_t Processor::pc
    stack_ptr,   \* uint8_t  Processor::stack_ptr
    status,      \* uint8_t  Processor::status
    addr_mode,   \* Addressing Processor::addr_mode
    ram,         \* std::array<uint8_t, 2048> Emulator::ram
    prog_start,  \* Emulator::prog_start (fixed for the lifetime of a run)
    hist,        \* history: one record per executed operation
    log          \* history: the bus accesses of the last operation, in order

vars == <<acc, x, y, pc, stack_ptr, status, addr_mode, ram, prog_start, hist, log>>

----------------------------------------------------------------------------
(* Bounds of the model *)

\* single_step calls per run of the whole machine
MaxSteps == 3
\* pushes (and then pulls) per run of the stack specification; the stack
\* window holds 256 bytes, so 257 pushes wrap all the way round
MaxPush == 257

----------------------------------------------------------------------------
(* Fixed-width arithmetic *)

Byte == 0..255
U8(v)  == (v + 65536) % 256
U16(v) == (v + 65536) % 65536

RECURSIVE BitAnd(_, _)
BitAnd(a, b) ==
    IF a = 0 \/ b = 0 THEN 0
    ELSE (a % 2) * (b % 2) + 2 * BitAnd(a \div 2, b \div 2)

RECURSIVE BitOr(_, _)
BitOr(a, b) ==
    IF a = 0 THEN b
    ELSE IF b = 0 THEN a
    ELSE (IF a % 2 = 1 \/ b % 2 = 1 THEN 1 ELSE 0) + 2 * BitOr(a \div 2, b \div 2)

RECURSIVE BitXor(_, _)
BitXor(a, b) ==
    IF a = 0 THEN b
    ELSE IF b = 0 THEN a
    ELSE ((a + b) % 2) + 2 * BitXor(a \div 2, b \div 2)

----------------------------------------------------------------------------
(* Processor::Flag and the stack base *)

Carry            == 1
Zero             == 2
InterruptDisable == 4
Decimal          == 8
Break            == 16
Unused           == 32
Overflow         == 64
Negative         == 128

stack_base == 256

\* enum class Addressing
Addressing ==
    {"Null", "Implied", "Accumulator", "Immediate", "ZeroPage", "ZeroPage_x",
     "ZeroPage_y", "Relative", "Absolute", "Absolute_x", "Absolute_y",
     "Indirect", "Indirect_x", "Indirect_y"}

----------------------------------------------------------------------------
(* The bus: Emulator::read and Emulator::write.                             *)
(* A machine state s is a record of the registers, ram, prog_start and the  *)
(* access log.                                                              *)

RamIndex == 0..2047

\* Emulator::ram is never initialised by the constructor: its contents at
\* construction are indeterminate.  The model draws them from these images.
RamImages == {"zero", "ones", "ramp"}

\* byte i of an image
image_byte(image, i) ==
    CASE image = "zero" -> 0
      [] image = "ones" -> 255
      [] image = "ramp" -> (i * 3 + 1) % 256

\* The 2048 bytes of ram are kept as the image they held at construction and
\* the cells assigned since: ram[i] is the cell's value if cell i was
\* assigned, and the image's byte otherwise.
ram_get(r, i) ==
    IF i \in DOMAIN r.cells THEN r.cells[i] ELSE image_byte(r.image, i)

\* ram[i] = v
ram_set(r, i, v) ==
    [r EXCEPT !.cells = [j \in (DOMAIN r.cells) \cup {i} |->
                            IF j = i THEN v ELSE r.cells[j]]]

\* (mutant) the mirror mask keeps twelve bits
read_wide_mask(s, addr) ==
    IF addr >= 0 /\ addr <= 8191
    THEN ram_get(s.ram, BitAnd(addr, 4095))
    ELSE IF addr = 65532 THEN BitAnd(s.prog_start, 255)
    ELSE IF addr = 65533 THEN BitAnd(s.prog_start, 65280) \div 256
    ELSE 0

\* Emulator::read
read(s, addr) ==
    IF addr >= 0 /\ addr <= 8191
    THEN ram_get(s.ram, BitAnd(addr, 2047))
    ELSE IF addr = 65532 THEN BitAnd(s.prog_start, 255)
    ELSE IF addr = 65533 THEN BitAnd(s.prog_start, 65280) \div 256
    ELSE 0

\* the state with bus accesses appended to the access log
logged(s, accesses) == [s EXCEPT !.log = @ \o accesses]

\* (mutant) every address is taken for a RAM address
write_unchecked(s, addr, data) ==
    [s EXCEPT !.ram = ram_set(s.ram, BitAnd(addr, 2047), data),
              !.log = Append(@, <<"w", addr, data>>)]

\* Emulator::write: the state after the write
write(s, addr, data) ==
    IF addr >= 0 /\ addr <= 8191
    THEN [s EXCEPT !.ram = ram_set(s.ram, BitAnd(addr, 2047), data),
                   !.log = Append(@, <<"w", addr, data>>)]
    ELSE logged(s, << <<"w", addr, data>> >>)

\* a bus read as the processor issues it: the value read, and the state with
\* the access recorded (a read changes nothing else)
bus_read(s, addr) ==
    [st |-> logged(s, << <<"r", addr>> >>), val |-> read(s, addr)]

\* (mutant) bus.read(pc): the program counter is not advanced
fetch_no_advance(s) ==
    [st |-> logged(s, << <<"r", s.pc>> >>), val |-> read(s, s.pc)]

\* bus.read(pc++): the byte at pc, and the state with pc advanced
fetch(s) ==
    [st |-> [s EXCEPT !.pc = U16(s.pc + 1), !.log = Append(@, <<"r", s.pc>>)],
     val |-> read(s, s.pc)]

----------------------------------------------------------------------------
(* Stack and flags *)

\* (mutant) the stack pointer is decremented before the write
stack_push_predec(s, byte) ==
    [write(s, BitOr(stack_base, U8(s.stack_ptr - 1)), byte)
        EXCEPT !.stack_ptr = U8(s.stack_ptr - 1)]

\* Processor::stack_push
stack_push(s, byte) ==
    [write(s, BitOr(stack_base, s.stack_ptr), byte)
        EXCEPT !.stack_ptr = U8(s.stack_ptr - 1)]

\* (mutant) the byte is read before the stack pointer is incremented
stack_pull_postinc(s) ==
    LET at(r) == [st |-> [r.st EXCEPT !.stack_ptr = U8(s.stack_ptr + 1)], val |-> r.val]
    IN  at(bus_read(s, BitOr(stack_base, s.stack_ptr)))

\* Processor::stack_pull: the byte pulled, and the state after
stack_pull(s) ==
    LET at(s1) == bus_read(s1, BitOr(stack_base, s1.stack_ptr))
    IN  at([s EXCEPT !.stack_ptr = U8(s.stack_ptr + 1)])

\* Processor::get_flag: status & flag (non-zero when the flag is set)
get_flag(s, flag) == BitAnd(s.status, flag)

\* Processor::set_flag
set_flag(s, flag, state) ==
    IF state
    THEN [s EXCEPT !.status = BitOr(s.status, flag)]
    ELSE [s EXCEPT !.status = BitAnd(s.status, 255 - flag)]

----------------------------------------------------------------------------
(* The addressing resolver *)

\* (mutant) the second operand byte is read without advancing pc
fetch16_high_unconsumed(s) ==
    LET hi(lo, h) == [st |-> h.st, val |-> BitOr(lo.val, h.val * 256)]
        go(lo)    == hi(lo, fetch_no_advance(lo.st))
    IN  go(fetch(s))

\* the two-byte little-endian operand: bus.read(pc++) | bus.read(pc++) << 8
fetch16(s) ==
    LET hi(lo, h) == [st |-> h.st, val |-> BitOr(lo.val, h.val * 256)]
        go(lo)    == hi(lo, fetch(lo.st))
    IN  go(fetch(s))

\* Addressing::Relative: the target for an offset byte, given pc after the
\* offset byte was fetched
relative_target(offset, pcAfter) ==
    U16((IF BitAnd(offset, 128) # 0 THEN BitOr(offset, 65280) ELSE offset)
        + pcAfter - 2)

\* (mutant) the high byte is always read from the address after loAddr
read_word_next(s, loAddr, hiAddr) ==
    LET fin(lo, hi) == [st |-> hi.st, val |-> BitOr(lo.val, hi.val * 256)]
        go(lo)      == fin(lo, bus_read(lo.st, U16(loAddr + 1)))
    IN  go(bus_read(s, loAddr))

\* the little-endian word read from the bus at loAddr (low) and hiAddr (high)
read_word(s, loAddr, hiAddr) ==
    [st |-> logged(s, << <<"r", loAddr>>, <<"r", hiAddr>> >>),
     val |-> BitOr(read(s, loAddr), read(s, hiAddr) * 256)]

\* (mutant) the index is added within the page of val
indexed_in_page(r, index) ==
    [st |-> r.st, val |-> BitOr(BitAnd(r.val, 65280), BitAnd(r.val + index, 255))]

\* val + index, truncated to 16 bits, after resolution r
indexed(r, index) == [st |-> r.st, val |-> U16(r.val + index)]

\* (mutant) the index is added without the mask
zero_page_index_unmasked(byte, index) == byte + index

\* (byte + index) & 0x00FF
zero_page_index(byte, index) == BitAnd(byte + index, 255)

\* Processor::get_address: the resolved address and the state after the
\* operand bytes were consumed
get_address(s) ==
    CASE s.addr_mode = "Null" ->
            [st |-> logged(s, << <<"diag">> >>), val |-> 0]
      [] s.addr_mode \in {"Implied", "Accumulator", "Immediate"} ->
            [st |-> s, val |-> 0]
      [] s.addr_mode = "ZeroPage" ->
            LET go(f) == [st |-> f.st, val |-> BitAnd(f.val, 255)]
            IN  go(fetch(s))
      [] s.addr_mode = "ZeroPage_x" ->
            LET go(f) == [st |-> f.st, val |-> zero_page_index(f.val, s.x)]
            IN  go(fetch(s))
      [] s.addr_mode = "ZeroPage_y" ->
            LET go(f) == [st |-> f.st, val |-> zero_page_index(f.val, s.y)]
            IN  go(fetch(s))
      [] s.addr_mode = "Relative" ->
            LET go(f) == [st |-> f.st, val |-> relative_target(f.val, f.st.pc)]
            IN  go(fetch(s))
      [] s.addr_mode = "Absolute" ->
            fetch16(s)
      [] s.addr_mode = "Absolute_x" ->
            indexed(fetch16(s), s.x)
      [] s.addr_mode = "Absolute_y" ->
            indexed(fetch16(s), s.y)
      [] s.addr_mode = "Indirect" ->
            LET go(p) == read_word(p.st, p.val,
                                   IF BitAnd(p.val, 255) = 255
                                   THEN BitAnd(p.val, 65280)
                                   ELSE U16(p.val + 1))
            IN  go(fetch16(s))
      [] s.addr_mode = "Indirect_x" ->
            LET at(st, ptr) == read_word(st, ptr, BitAnd(ptr + 1, 255))
                go(f)       == at(f.st, BitAnd(f.val + s.x, 255))
            IN  go(fetch(s))
      [] s.addr_mode = "Indirect_y" ->
            LET go(f) == indexed(read_word(f.st, f.val, BitAnd(f.val + 1, 255)), s.y)
            IN  go(fetch(s))

\* the value of an address variable that get_data left unassigned
NoAddr == -1

\* Processor::get_data: the operand value, the address it came from (NoAddr
\* when the mode resolves none) and the state after the operand bytes
get_data(s) ==
    CASE s.addr_mode = "Null" ->
            [st |-> logged(s, << <<"diag">> >>), val |-> 0, addr |-> NoAddr]
      [] s.addr_mode = "Implied" ->
            [st |-> s, val |-> 0, addr |-> NoAddr]
      [] s.addr_mode = "Accumulator" ->
            [st |-> s, val |-> s.acc, addr |-> NoAddr]
      [] s.addr_mode = "Immediate" ->
            LET go(f) == [st |-> f.st, val |-> f.val, addr |-> NoAddr]
            IN  go(fetch(s))
      [] s.addr_mode = "Relative" ->
            [st |-> s, val |-> 0, addr |-> NoAddr]
      [] OTHER ->
            LET go(a) == [st |-> logged(a.st, << <<"r", a.val>> >>),
                          val |-> read(a.st, a.val), addr |-> a.val]
            IN  go(get_address(s))

\* (mutant) only the Zero flag is updated
set_zn_zero_only(s, v) == set_flag(s, Zero, v = 0)

\* set_flag(Zero, v == 0); set_flag(Negative, v & 0x80)
set_zn(s, v) ==
    set_flag(set_flag(s, Zero, v = 0), Negative, BitAnd(v, 128) # 0)

----------------------------------------------------------------------------
(* Instructions: each maps the state before the handler to the state after *)

\* Processor::inst_lda
inst_lda(s) ==
    LET go(d) == set_zn([d.st EXCEPT !.acc = d.val], d.val)
    IN  go(get_data(s))

\* Processor::inst_ldx
inst_ldx(s) ==
    LET go(d) == set_zn([d.st EXCEPT !.x = d.val], d.val)
    IN  go(get_data(s))

\* (mutant) the data is loaded into the x register
inst_ldy_into_x(s) ==
    LET go(d) == set_zn([d.st EXCEPT !.x = d.val], d.val)
    IN  go(get_data(s))

\* Processor::inst_ldy
inst_ldy(s) ==
    LET go(d) == set_zn([d.st EXCEPT !.y = d.val], d.val)
    IN  go(get_data(s))

\* Processor::inst_sta
inst_sta(s) ==
    LET go(a) == write(a.st, a.val, s.acc)
    IN  go(get_address(s))

\* Processor::inst_pha
inst_pha(s) == stack_push(s, s.acc)

\* (mutant) the accumulator is pushed instead of the status
inst_php_pushes_acc(s) == stack_push(s, s.acc)

\* Processor::inst_php
inst_php(s) == stack_push(s, s.status)

\* Processor::inst_and
inst_and(s) ==
    LET fin(st, v) == set_zn([st EXCEPT !.acc = v], v)
        go(d)      == fin(d.st, BitAnd(s.acc, d.val))
    IN  go(get_data(s))

\* Processor::inst_ora
inst_ora(s) ==
    LET fin(st, v) == set_zn([st EXCEPT !.acc = v], v)
        go(d)      == fin(d.st, BitOr(s.acc, d.val))
    IN  go(get_data(s))

\* Processor::inst_bit
inst_bit(s) ==
    LET fin(st, data) ==
            set_flag(set_flag(set_flag(st, Zero, data = 0),
                              Overflow, BitAnd(data, 64) # 0),
                     Negative, BitAnd(data, 128) # 0)
        go(d) == fin(d.st, BitAnd(s.acc, d.val))
    IN  go(get_data(s))

\* (mutant) the result goes to the accumulator in every mode, too
shift_store_both(d, carryOut, data) ==
    LET store(st) == IF st.addr_mode # "Accumulator"
                     THEN write([st EXCEPT !.acc = data], d.addr, data)
                     ELSE [st EXCEPT !.acc = data]
    IN  store(set_flag(set_flag(d.st, Carry, carryOut),
                       Negative, BitAnd(data, 128) # 0))

\* the tail shared by the shift and rotate handlers: the carry-out and the
\* Negative flag are set, and the result goes to memory unless the mode is
\* Accumulator
shift_store(d, carryOut, data) ==
    LET store(st) == IF st.addr_mode # "Accumulator"
                     THEN write(st, d.addr, data)
                     ELSE [st EXCEPT !.acc = data]
    IN  store(set_flag(set_flag(d.st, Carry, carryOut),
                       Negative, BitAnd(data, 128) # 0))

\* Processor::inst_asl
inst_asl(s) ==
    LET go(d) == shift_store(d, BitAnd(d.val, 128) # 0, U8(d.val * 2))
    IN  go(get_data(s))

\* Processor::inst_lsr
inst_lsr(s) ==
    LET go(d) == shift_store(d, BitAnd(d.val, 1) # 0, d.val \div 2)
    IN  go(get_data(s))

\* Processor::inst_rol
inst_rol(s) ==
    LET go(d) == shift_store(d, BitAnd(d.val, 128) # 0,
                             BitOr(U8(d.val * 2), get_flag(d.st, Carry)))
    IN  go(get_data(s))

\* Processor::inst_jmp
inst_jmp(s) ==
    LET go(a) == [a.st EXCEPT !.pc = a.val]
    IN  go(get_address(s))

\* Processor::inst_jsr
inst_jsr(s) ==
    LET go(a) == [stack_push(stack_push(a.st, BitAnd(a.st.pc, 255)),
                             BitAnd(a.st.pc, 65280) \div 256)
                     EXCEPT !.pc = a.val]
    IN  go(get_address(s))

\* (mutant) the first byte pulled is taken for the low byte
inst_rts_low_first(s) ==
    LET fin(first, second) == [second.st EXCEPT !.pc = BitOr(second.val * 256, first.val)]
        go(first)          == fin(first, stack_pull(first.st))
    IN  go(stack_pull(s))

\* Processor::inst_rts
inst_rts(s) ==
    LET fin(first, second) == [second.st EXCEPT !.pc = BitOr(first.val * 256, second.val)]
        go(first)          == fin(first, stack_pull(first.st))
    IN  go(stack_pull(s))

\* the body shared by the eight branch handlers: the target is resolved, and
\* pc set to it, only when the tested condition holds
branch_if(s, cond) ==
    LET go(a) == [a.st EXCEPT !.pc = a.val]
    IN  IF cond THEN go(get_address(s)) ELSE s

\* Processor::inst_bcc
inst_bcc(s) == branch_if(s, get_flag(s, Carry) = 0)
\* Processor::inst_bcs
inst_bcs(s) == branch_if(s, get_flag(s, Carry) # 0)
\* Processor::inst_beq
inst_beq(s) == branch_if(s, get_flag(s, Zero) # 0)
\* Processor::inst_bmi
inst_bmi(s) == branch_if(s, get_flag(s, Negative) # 0)
\* Processor::inst_bne
inst_bne(s) == branch_if(s, get_flag(s, Zero) = 0)
\* Processor::inst_bpl
inst_bpl(s) == branch_if(s, get_flag(s, Negative) = 0)
\* Processor::inst_bvc
inst_bvc(s) == branch_if(s, get_flag(s, Overflow) = 0)
\* Processor::inst_bvs
inst_bvs(s) == branch_if(s, get_flag(s, Overflow) # 0)

\* Processor::inst_sec
inst_sec(s) == set_flag(s, Carry, TRUE)

\* Processor::inst_sei
inst_sei(s) == set_flag(s, InterruptDisable, TRUE)

\* Processor::inst_sed
inst_sed(s) == set_flag(s, Decimal, TRUE)

\* Processor::inst_clc
inst_clc(s) == set_flag(s, Carry, FALSE)

\* Processor::inst_cli
inst_cli(s) == set_flag(s, InterruptDisable, FALSE)

\* Processor::inst_cld
inst_cld(s) == set_flag(s, Decimal, FALSE)

\* (mutant) the Negative flag is cleared along with Overflow
inst_clv_and_negative(s) == set_flag(set_flag(s, Overflow, FALSE), Negative, FALSE)

\* Processor::inst_clv
inst_clv(s) == set_flag(s, Overflow, FALSE)

\* Processor::inst_stx
inst_stx(s) ==
    LET go(a) == write(a.st, a.val, s.x)
    IN  go(get_address(s))

\* Processor::inst_sty
inst_sty(s) ==
    LET go(a) == write(a.st, a.val, s.y)
    IN  go(get_address(s))

\* Processor::inst_tax
inst_tax(s) == set_zn([s EXCEPT !.x = s.acc], s.acc)

\* Processor::inst_tay
inst_tay(s) == set_zn([s EXCEPT !.y = s.acc], s.acc)

\* Processor::inst_txa
inst_txa(s) == set_zn([s EXCEPT !.acc = s.x], s.x)

\* Processor::inst_tya
inst_tya(s) == set_zn([s EXCEPT !.acc = s.y], s.y)

\* Processor::inst_tsx
inst_tsx(s) == set_zn([s EXCEPT !.x = s.stack_ptr], s.stack_ptr)

\* (mutant) the transfer sets Zero and Negative as the other transfers do
inst_txs_sets_flags(s) == set_zn([s EXCEPT !.stack_ptr = s.x], s.x)

\* Processor::inst_txs
inst_txs(s) == [s EXCEPT !.stack_ptr = s.x]

\* Processor::inst_pla
inst_pla(s) ==
    LET go(p) == set_zn([p.st EXCEPT !.acc = p.val], p.val)
    IN  go(stack_pull(s))

\* Processor::inst_plp
inst_plp(s) ==
    LET go(p) == [p.st EXCEPT !.status = p.val]
    IN  go(stack_pull(s))

\* Processor::inst_eor
inst_eor(s) ==
    LET fin(st, v) == set_zn([st EXCEPT !.acc = v], v)
        go(d)      == fin(d.st, BitXor(s.acc, d.val))
    IN  go(get_data(s))

\* the tail shared by inst_inc and inst_dec: the new byte is written back to
\* the address get_data resolved, and Zero and Negative are set from it
store_zn(d, data) == set_zn(write(d.st, d.addr, data), data)

\* Processor::inst_inc
inst_inc(s) ==
    LET go(d) == store_zn(d, U8(d.val + 1))
    IN  go(get_data(s))

\* Processor::inst_inx
inst_inx(s) == set_zn([s EXCEPT !.x = U8(s.x + 1)], U8(s.x + 1))

\* Processor::inst_iny
inst_iny(s) == set_zn([s EXCEPT !.y = U8(s.y + 1)], U8(s.y + 1))

\* (mutant) the address is resolved again for the write-back
inst_dec_resolves_twice(s) ==
    LET back(d, a) == set_zn(write(a.st, a.val, U8(d.val - 1)), U8(d.val - 1))
        go(d)      == back(d, get_address(d.st))
    IN  go(get_data(s))

\* Processor::inst_dec
inst_dec(s) ==
    LET go(d) == store_zn(d, U8(d.val - 1))
    IN  go(get_data(s))

\* Processor::inst_dex
inst_dex(s) == set_zn([s EXCEPT !.x = U8(s.x - 1)], U8(s.x - 1))

\* Processor::inst_dey
inst_dey(s) == set_zn([s EXCEPT !.y = U8(s.y - 1)], U8(s.y - 1))

\* (mutant) the bit rotated in is the Carry the instruction itself sets
inst_ror_new_carry(s) ==
    LET go(d) == shift_store(d, BitAnd(d.val, 1) # 0,
                             BitOr(d.val \div 2, BitAnd(d.val, 1) * 128))
    IN  go(get_data(s))

\* Processor::inst_ror
inst_ror(s) ==
    LET go(d) == shift_store(d, BitAnd(d.val, 1) # 0,
                             BitOr(d.val \div 2, get_flag(d.st, Carry) * 128))
    IN  go(get_data(s))

----------------------------------------------------------------------------
(* Dispatch *)

\* (mutant) the case does not set addr_mode
with_mode_unset(s, mode) == s

\* (mutant) ZeroPage_y is taken for ZeroPage_x
with_mode_y_as_x(s, mode) ==
    [s EXCEPT !.addr_mode = IF mode = "ZeroPage_y" THEN "ZeroPage_x" ELSE mode]

\* addr_mode = mode
with_mode(s, mode) == [s EXCEPT !.addr_mode = mode]

\* (mutant) an opcode without a case is taken for a two-byte instruction
unassigned_skips_operand(s) == fetch(s).st

\* the switch has no default: an opcode without a case runs no handler
unassigned(s) == s

\* the switch of Processor::single_step: the handler the opcode selects, run
\* in the mode the opcode selects; an opcode with no case falls through
dispatch(s, opcode) ==
    CASE opcode = 6   -> inst_asl(with_mode(s, "ZeroPage"))
      [] opcode = 8   -> inst_php(with_mode(s, "Implied"))
      [] opcode = 10  -> inst_asl(with_mode(s, "Accumulator"))
      [] opcode = 14  -> inst_asl(with_mode(s, "Absolute"))
      [] opcode = 17  -> inst_ora(with_mode(s, "Indirect_y"))
      [] opcode = 41  -> inst_and(with_mode(s, "Immediate"))
      [] opcode = 56  -> inst_sec(with_mode(s, "Implied"))
      [] opcode = 62  -> inst_rol(with_mode(s, "Absolute_x"))
      [] opcode = 72  -> inst_pha(with_mode(s, "Implied"))
      [] opcode = 86  -> inst_lsr(with_mode(s, "ZeroPage_x"))
      [] opcode = 108 -> inst_jmp(with_mode(s, "Indirect"))
      [] opcode = 129 -> inst_sta(with_mode(s, "Indirect_x"))
      [] opcode = 153 -> inst_sta(with_mode(s, "Absolute_y"))
      [] opcode = 160 -> inst_ldy(with_mode(s, "Immediate"))
      [] opcode = 162 -> inst_ldx(with_mode(s, "Immediate"))
      [] opcode = 165 -> inst_lda(with_mode(s, "ZeroPage"))
      [] opcode = 169 -> inst_lda(with_mode(s, "Immediate"))
      [] opcode = 182 -> inst_ldx(with_mode(s, "ZeroPage_y"))
      [] opcode = 240 -> inst_beq(with_mode(s, "Relative"))
      [] OTHER        -> unassigned(s)

\* the opcodes the switch of single_step has a case for
Assigned ==
    {6, 8, 10, 14, 17, 41, 56, 62, 72, 86, 108, 129, 153, 160, 162, 165, 169,
     182, 240}

\* the prologue of Processor::single_step: addr_mode = Null; opcode = bus.read(pc++)
step_fetch(s) == fetch(with_mode(s, "Null"))

\* Processor::single_step
single_step(s) ==
    LET go(f) == dispatch(f.st, f.val)
    IN  go(step_fetch(s))

\* the reset vector: bus.read(0xFFFC) | bus.read(0xFFFD) << 8 goes to pc
load_vector(s) ==
    LET fin(lo, hi) == [hi.st EXCEPT !.pc = BitOr(lo.val, hi.val * 256)]
        go(lo)      == fin(lo, bus_read(lo.st, 65533))
    IN  go(bus_read(s, 65532))

\* (mutant) the status register is not reset
reset_state_keeps_status(s) ==
    [load_vector([s EXCEPT !.x = 0, !.y = 0, !.acc = 0, !.stack_ptr = 255])
        EXCEPT !.addr_mode = "Null"]

\* Processor::reset_state
reset_state(s) ==
    [load_vector([s EXCEPT !.x = 0, !.y = 0, !.acc = 0, !.status = 0,
                           !.stack_ptr = 255])
        EXCEPT !.addr_mode = "Null"]

----------------------------------------------------------------------------
(* The machine state as one record, and back *)

Machine ==
    [acc |-> acc, x |-> x, y |-> y, pc |-> pc, stack_ptr |-> stack_ptr,
     status |-> status, addr_mode |-> addr_mode, ram |-> ram,
     prog_start |-> prog_start, log |-> <<>>]

\* the registers of a machine state (what hist keeps of the state before an
\* operation)
Regs(s) ==
    [acc |-> s.acc, x |-> s.x, y |-> s.y, pc |-> s.pc, stack_ptr |-> s.stack_ptr,
     status |-> s.status, addr_mode |-> s.addr_mode]

\* the variables take the values of machine state s
Becomes(s) ==
    /\ acc' = s.acc
    /\ x' = s.x
    /\ y' = s.y
    /\ pc' = s.pc
    /\ stack_ptr' = s.stack_ptr
    /\ status' = s.status
    /\ addr_mode' = s.addr_mode
    /\ ram' = s.ram
    /\ log' = s.log
    /\ UNCHANGED prog_start

\* one more operation in the history: its name, the opcode byte fetched for
\* it (-1 when none was), the addressing mode it was invoked in ("" when the
\* opcode chose it), its argument (0 when it has none), the values it
\* returned, and the registers before it
Record(name, opcode, mode, arg, out) ==
    hist' = Append(hist, [name |-> name, opcode |-> opcode, mode |-> mode,
                          arg |-> arg, out |-> out, pre |-> Regs(Machine)])

----------------------------------------------------------------------------
(* Memory images *)

\* Emulator::load_prog: ram[addr++] = byte for each byte of prog, from
\* prog_start on
load_prog(r, addr, prog) ==
    LET loaded == addr..(addr + Len(prog) - 1)
    IN  [r EXCEPT !.cells = [j \in (DOMAIN r.cells) \cup loaded |->
                                IF j \in loaded THEN prog[j - addr + 1]
                                ELSE r.cells[j]]]

\* the start addresses the model draws Emulator::prog_start from
ProgStarts == {512, 1536}

\* operand bytes
Operands == {0, 3, 128, 254, 255}

\* second instructions, chosen to follow a first one that set a register
SecondOps == {6, 10, 17, 72, 8, 108, 240, 129, 2}

\* the programs the model loads: every opcode value followed by two operand
\* bytes, and pairs of two-byte instructions
Programs ==
    {<<op, a, b>> : op \in Byte, a \in {0, 254}, b \in {2, 255}}
    \cup {<<op1, a, op2, b>> : op1 \in {169, 162, 160, 56, 41},
                               a \in Operands, op2 \in SecondOps, b \in Operands}

\* the program of main: lda #01; ldy #04; ora ($03),Y
MainProg == <<169, 1, 160, 4, 17, 3>>

\* the cells main writes before it loads the program, as <<address, byte>>
MainWrites == << <<3, 0>>, <<4, 5>>, <<1284, 128>> >>

\* Emulator::write for each <<address, byte>> of ws, in order
RECURSIVE writes(_, _)
writes(r, ws) ==
    IF ws = <<>> THEN r
    ELSE writes(write([ram |-> r, log |-> <<>>], Head(ws)[1], Head(ws)[2]).ram,
                Tail(ws))

\* what is done to memory before the first step: the writes, then the
\* program loaded
Loads ==
    {[writes |-> <<>>, prog |-> prog] : prog \in Programs}
    \cup {[writes |-> MainWrites, prog |-> MainProg]}

----------------------------------------------------------------------------
(* The whole machine: construction, then single_step and reset_state calls *)

\* the state after Emulator::Emulator (Processor::Processor reads the reset
\* vector) and Emulator::load_prog
Init ==
    /\ prog_start \in ProgStarts
    /\ \E image \in RamImages, load \in Loads :
            ram = load_prog(writes([image |-> image, cells |-> <<>>], load.writes),
                            prog_start, load.prog)
    /\ acc = 0
    /\ x = 0
    /\ y = 0
    /\ stack_ptr = 255
    /\ status = 0
    /\ addr_mode = "Null"
    /\ LET bus == [ram |-> ram, prog_start |-> prog_start]
       IN  pc = BitOr(read(bus, 65532), read(bus, 65533) * 256)
    /\ hist = <<>>
    /\ log = <<>>

\* one call of Processor::single_step
Step ==
    /\ Len(hist) < MaxSteps
    /\ Becomes(single_step(Machine))
    /\ Record("single_step", read(Machine, pc), "", 0, <<>>)

\* one call of Processor::reset_state
Reset ==
    /\ Len(hist) < MaxSteps
    /\ Becomes(reset_state(Machine))
    /\ Record("reset_state", -1, "", 0, <<>>)

Next == Step \/ Reset

Spec == Init /\ [][Next]_vars

----------------------------------------------------------------------------
(* The handlers one at a time.  Several handlers have no case in the switch *)
(* of single_step (JSR, RTS, BIT, all branches but BEQ), so they are        *)
(* applied here the way the existing cases apply theirs: after the opcode   *)
(* fetch, with addr_mode set, from registers and memory drawn from bounded  *)
(* sets.                                                                    *)

\* Emulator::write used to preset a memory cell (as main does before it
\* loads the program)
preset(r, addr, v) == write([ram |-> r, log |-> <<>>], addr, v).ram

\* a case of the switch: addr_mode = mode; handler()
handler(name, s) ==
    CASE name = "inst_bcc" -> inst_bcc(s)
      [] name = "inst_bcs" -> inst_bcs(s)
      [] name = "inst_beq" -> inst_beq(s)
      [] name = "inst_bmi" -> inst_bmi(s)
      [] name = "inst_bne" -> inst_bne(s)
      [] name = "inst_bpl" -> inst_bpl(s)
      [] name = "inst_bvc" -> inst_bvc(s)
      [] name = "inst_bvs" -> inst_bvs(s)
      [] name = "inst_jsr" -> inst_jsr(s)
      [] name = "inst_rts" -> inst_rts(s)
      [] name = "inst_bit" -> inst_bit(s)
      [] name = "inst_lda" -> inst_lda(s)
      [] name = "inst_ldx" -> inst_ldx(s)
      [] name = "inst_ldy" -> inst_ldy(s)
      [] name = "inst_sta" -> inst_sta(s)
      [] name = "inst_stx" -> inst_stx(s)
      [] name = "inst_sty" -> inst_sty(s)
      [] name = "inst_tax" -> inst_tax(s)
      [] name = "inst_tay" -> inst_tay(s)
      [] name = "inst_txa" -> inst_txa(s)
      [] name = "inst_tya" -> inst_tya(s)
      [] name = "inst_tsx" -> inst_tsx(s)
      [] name = "inst_txs" -> inst_txs(s)
      [] name = "inst_pha" -> inst_pha(s)
      [] name = "inst_php" -> inst_php(s)
      [] name = "inst_pla" -> inst_pla(s)
      [] name = "inst_plp" -> inst_plp(s)
      [] name = "inst_and" -> inst_and(s)
      [] name = "inst_eor" -> inst_eor(s)
      [] name = "inst_ora" -> inst_ora(s)
      [] name = "inst_inc" -> inst_inc(s)
      [] name = "inst_inx" -> inst_inx(s)
      [] name = "inst_iny" -> inst_iny(s)
      [] name = "inst_dec" -> inst_dec(s)
      [] name = "inst_dex" -> inst_dex(s)
      [] name = "inst_dey" -> inst_dey(s)
      [] name = "inst_asl" -> inst_asl(s)
      [] name = "inst_lsr" -> inst_lsr(s)
      [] name = "inst_rol" -> inst_rol(s)
      [] name = "inst_ror" -> inst_ror(s)
      [] name = "inst_jmp" -> inst_jmp(s)
      [] name = "inst_sec" -> inst_sec(s)
      [] name = "inst_sei" -> inst_sei(s)
      [] name = "inst_sed" -> inst_sed(s)
      [] name = "inst_clc" -> inst_clc(s)
      [] name = "inst_cli" -> inst_cli(s)
      [] name = "inst_cld" -> inst_cld(s)
      [] name = "inst_clv" -> inst_clv(s)

\* single_step for an opcode whose case is { addr_mode = mode; name(); }
execute(s, mode, name) ==
    LET go(f) == handler(name, with_mode(f.st, mode))
    IN  go(step_fetch(s))

Branches ==
    {"inst_bcc", "inst_bcs", "inst_beq", "inst_bmi", "inst_bne", "inst_bpl",
     "inst_bvc", "inst_bvs"}

\* program counters: the start of ram, two neighbours in page 2, and the last
\* address (the fetches wrap to 0)
UnitPcs == {0, 512, 513, 65535}
\* status bytes: none set, all set, Zero only, Negative|Overflow|Carry
UnitStatus == {0, 255, 2, 193}
\* stack pointers: empty stack, the two wrapping ones, and the middle
UnitSps == {255, 0, 1, 128}
\* operand bytes: offsets of both signs and zero-page addresses
UnitOperands == {0, 16, 127, 128, 254, 255}
\* the bytes BIT tests
BitOperands == {0, 1, 63, 64, 127, 128, 192, 255}

\* the inputs: branch and addressing cases, JSR/RTS cases, BIT cases
UnitInputs ==
    {[pc |-> p, o |-> o, c |-> 2, m |-> 0, acc |-> 1, sp |-> 255, status |-> f,
      x |-> 2, y |-> 4, image |-> i] :
        p \in UnitPcs, o \in UnitOperands, f \in UnitStatus, i \in {"zero", "ramp"}}
    \cup
    {[pc |-> p, o |-> o, c |-> c, m |-> 0, acc |-> 1, sp |-> sp, status |-> 0,
      x |-> 2, y |-> 4, image |-> i] :
        p \in UnitPcs, o \in {0, 16, 255}, c \in {0, 2, 255}, sp \in UnitSps,
        i \in {"ones", "ramp"}}
    \cup
    {[pc |-> 512, o |-> 16, c |-> 0, m |-> m, acc |-> a, sp |-> 255, status |-> f,
      x |-> 0, y |-> 0, image |-> "zero"] :
        m \in BitOperands, a \in Byte, f \in {0, 255}}

\* the memory of an input: cell o holds m, and the three bytes from pc on
\* are o, o, c
UnitRam(i) ==
    preset(preset(preset(preset([image |-> i.image, cells |-> <<>>],
                                i.o, i.m),
                         i.pc, i.o),
                  U16(i.pc + 1), i.o),
           U16(i.pc + 2), i.c)

InitUnit ==
    /\ prog_start = 512
    /\ \E i \in UnitInputs :
          /\ ram = UnitRam(i)
          /\ acc = i.acc
          /\ x = i.x
          /\ y = i.y
          /\ pc = i.pc
          /\ stack_ptr = i.sp
          /\ status = i.status
    /\ addr_mode = "Null"
    /\ hist = <<>>
    /\ log = <<>>

\* one of the eight branch handlers, in Relative mode
Branch ==
    /\ hist = <<>>
    /\ \E name \in Branches :
          /\ Becomes(execute(Machine, "Relative", name))
          /\ Record(name, read(Machine, pc), "Relative", 0, <<>>)

\* inst_jsr in Absolute mode
Jsr ==
    /\ hist = <<>>
    /\ Becomes(execute(Machine, "Absolute", "inst_jsr"))
    /\ Record("inst_jsr", read(Machine, pc), "Absolute", 0, <<>>)

\* inst_rts, from any stack or right after a JSR
Rts ==
    /\ IF hist = <<>> THEN TRUE ELSE Len(hist) = 1 /\ hist[1].name = "inst_jsr"
    /\ Becomes(execute(Machine, "Implied", "inst_rts"))
    /\ Record("inst_rts", read(Machine, pc), "Implied", 0, <<>>)

\* inst_bit in the two modes the 6502 gives it
Bit ==
    /\ hist = <<>>
    /\ \E mode \in {"ZeroPage", "Absolute"} :
          /\ Becomes(execute(Machine, mode, "inst_bit"))
          /\ Record("inst_bit", read(Machine, pc), mode, 0, <<>>)

\* get_address alone, in any mode
Resolve ==
    /\ hist = <<>>
    /\ \E mode \in Addressing :
          LET go(r) == /\ Becomes(r.st)
                       /\ Record("get_address", -1, mode, 0, <<r.val>>)
          IN  go(get_address(with_mode(logged(Machine, <<>>), mode)))

NextUnit == Branch \/ Jsr \/ Rts \/ Bit \/ Resolve

SpecUnit == InitUnit /\ [][NextUnit]_vars

----------------------------------------------------------------------------
(* Every instruction handler, applied once the way a case of the switch     *)
(* applies it, to registers and operands that take every byte value         *)

\* the accumulator and the operand byte: every accumulator with one operand,
\* and every operand with three accumulators
InstPairs ==
    {<<v, U8(v + 51)>> : v \in Byte}
    \cup {<<a, o>> : a \in {0, 85, 255}, o \in Byte}

\* status bytes: none set, all set, Carry only
InstStatus == {0, 255, 1}

\* the opcode is at 0x0200 and the operand byte after it; the other
\* registers follow the accumulator at fixed distances, so that each takes
\* every byte value and no two are equal
InitInst ==
    /\ prog_start = 512
    /\ pc = 512
    /\ \E p \in InstPairs :
          /\ acc = p[1]
          /\ x = U8(p[1] + 85)
          /\ y = U8(p[1] + 170)
          /\ stack_ptr = U8(p[1] + 1)
          /\ ram = writes([image |-> "ramp", cells |-> <<>>],
                          << <<513, p[2]>>, <<514, 0>> >>)
    /\ status \in InstStatus
    /\ addr_mode = "Null"
    /\ hist = <<>>
    /\ log = <<>>

\* the operand get_data returns to a handler run in the given mode
data_seen(s, mode) == get_data(with_mode(step_fetch(s).st, mode)).val

\* the handler named, run in the given mode; the history keeps the operand
Apply(name, mode) ==
    /\ Becomes(execute(Machine, mode, name))
    /\ Record(name, read(Machine, pc), mode, data_seen(Machine, mode), <<>>)

Loads3 == {"inst_lda", "inst_ldx", "inst_ldy"}
Logic == {"inst_and", "inst_eor", "inst_ora"}
Stores == {"inst_sta", "inst_stx", "inst_sty"}
Transfers == {"inst_tax", "inst_tay", "inst_txa", "inst_tya", "inst_tsx", "inst_txs"}
StackOps == {"inst_pha", "inst_php", "inst_pla", "inst_plp"}
MemorySteps == {"inst_inc", "inst_dec"}
RegisterSteps == {"inst_inx", "inst_iny", "inst_dex", "inst_dey"}
Shifts == {"inst_asl", "inst_lsr", "inst_rol", "inst_ror"}
FlagSets == {"inst_sec", "inst_sei", "inst_sed"}
FlagClears == {"inst_clc", "inst_cli", "inst_cld", "inst_clv"}

\* a load or logic instruction
Load ==
    /\ hist = <<>>
    /\ \E name \in Loads3 \cup Logic, mode \in {"Immediate", "ZeroPage", "Absolute_x"} :
          Apply(name, mode)

\* a store
Store ==
    /\ hist = <<>>
    /\ \E name \in Stores, mode \in {"ZeroPage", "Absolute"} : Apply(name, mode)

\* a register transfer
Transfer ==
    /\ hist = <<>>
    /\ \E name \in Transfers : Apply(name, "Implied")

\* a push or a pull
StackOp ==
    /\ hist = <<>>
    /\ \E name \in StackOps : Apply(name, "Implied")

\* an increment or decrement of a memory cell
StepMemory ==
    /\ hist = <<>>
    /\ \E name \in MemorySteps, mode \in {"ZeroPage", "ZeroPage_x", "Absolute"} :
          Apply(name, mode)

\* an increment or decrement of an index register
StepRegister ==
    /\ hist = <<>>
    /\ \E name \in RegisterSteps : Apply(name, "Implied")

\* a shift or rotate of the accumulator or of a memory cell
Shift ==
    /\ hist = <<>>
    /\ \E name \in Shifts, mode \in {"Accumulator", "ZeroPage", "Absolute_x"} :
          Apply(name, mode)

\* a flag set or clear
FlagOp ==
    /\ hist = <<>>
    /\ \E name \in FlagSets \cup FlagClears : Apply(name, "Implied")

\* inst_jmp in the two modes the 6502 gives it
Jump ==
    /\ hist = <<>>
    /\ \E mode \in {"Absolute", "Indirect"} : Apply("inst_jmp", mode)

NextInst ==
    \/ Load \/ Store \/ Transfer \/ StackOp \/ StepMemory \/ StepRegister
    \/ Shift \/ FlagOp \/ Jump \/ Branch \/ Jsr \/ Rts \/ Bit

SpecInst == InitInst /\ [][NextInst]_vars

----------------------------------------------------------------------------
(* The addressing resolver alone, on operand bytes, index registers and     *)
(* memory that reach the page boundaries                                    *)

\* program counters: in page 3, and the last address (the fetches wrap to 0)
AddrPcs == {768, 65535}
\* first operand bytes (zero-page addresses, low bytes of pointers)
AddrLow == {0, 1, 127, 254, 255}
\* second operand bytes (high bytes of pointers)
AddrHigh == {0, 1, 2, 255}
\* values of the x register
AddrX == {0, 2, 255}
\* values of the y register
AddrY == {0, 4, 255}
\* cells written before the operand bytes, so that the first bytes of pages
\* 0, 1 and 2 differ
AddrMarks == << <<0, 52>>, <<512, 86>> >>

InitAddr ==
    /\ prog_start = 768
    /\ pc \in AddrPcs
    /\ x \in AddrX
    /\ y \in AddrY
    /\ \E image \in RamImages, lo \in AddrLow, hi \in AddrHigh :
          ram = writes([image |-> image, cells |-> <<>>],
                       AddrMarks \o << <<pc, lo>>, <<U16(pc + 1), hi>> >>)
    /\ acc = 0
    /\ stack_ptr = 255
    /\ status = 0
    /\ addr_mode = "Null"
    /\ hist = <<>>
    /\ log = <<>>

NextAddr == Resolve

SpecAddr == InitAddr /\ [][NextAddr]_vars

----------------------------------------------------------------------------
(* The stack alone: pushes, then pulls *)

\* pushes per run that starts with any byte
ShortPush == 3

\* the stack pointers the runs start from
StackStarts == {255, 0, 1, 128}
\* the runs that go on to MaxPush pushes: their first byte and stack pointer
LongSeeds == {90}
LongStarts == {1}

InitStack ==
    /\ prog_start = 512
    /\ ram = [image |-> "ramp", cells |-> <<>>]
    /\ acc = 0
    /\ x = 0
    /\ y = 0
    /\ pc = 512
    /\ stack_ptr \in StackStarts
    /\ status = 0
    /\ addr_mode = "Null"
    /\ hist = <<>>
    /\ log = <<>>

\* the pushes of the history, and its pulls
Pushes == SelectSeq(hist, LAMBDA h : h.name = "stack_push")
Pulls  == SelectSeq(hist, LAMBDA h : h.name = "stack_pull")

\* the bytes a run may push next: any byte first, then the last byte plus
\* the number of pushes so far (so that bytes 256 pushes apart differ)
PushChoices ==
    IF hist = <<>> THEN Byte ELSE {U8(hist[Len(hist)].arg + Len(hist))}

\* how many pushes the run may make
PushLimit ==
    IF hist # <<>> /\ hist[1].arg \in LongSeeds /\ hist[1].pre.stack_ptr \in LongStarts
    THEN MaxPush
    ELSE ShortPush

\* Processor::stack_push, while no byte was pulled yet
Push ==
    /\ IF hist = <<>> THEN TRUE ELSE hist[Len(hist)].name = "stack_push"
    /\ Len(hist) < PushLimit
    /\ \E v \in PushChoices :
          /\ Becomes(stack_push(Machine, v))
          /\ Record("stack_push", -1, "", v, <<>>)

\* Processor::stack_pull, while fewer bytes were pulled than pushed
Pull ==
    /\ hist # <<>>
    /\ 2 * Len(Pushes) > Len(hist)
    /\ LET go(r) == /\ Becomes(r.st)
                    /\ Record("stack_pull", -1, "", 0, <<r.val>>)
       IN  go(stack_pull(Machine))

NextStack == Push \/ Pull

SpecStack == InitStack /\ [][NextStack]_vars

----------------------------------------------------------------------------
(* The bus alone: reads and writes at addresses of every region, stack      *)
(* pulls, and steps of a program that stores to the reset vector            *)

\* bus operations per run
MaxBusOps == 2

\* program starts: 0x0200 and 0x0533 (both bytes non-zero)
BusStarts == {512, 1331}

\* addresses: the first byte of RAM and its mirror, the first byte of page 1
\* and two of its mirrors, the last bytes of RAM and of its last mirror, and
\* the unmapped region with the reset vector
BusAddrs == {0, 256, 2047, 2048, 2304, 4352, 8191, 8192, 65532, 65533, 65535}

\* bytes written
BusData == {90, 165}

\* lda #$5A; sta $FFFC,Y
BusProg == <<169, 90, 153, 252, 255>>

InitBus ==
    /\ prog_start \in BusStarts
    /\ ram = load_prog([image |-> "ramp", cells |-> <<>>], prog_start, BusProg)
    /\ acc = 0
    /\ x = 0
    /\ y = 0
    /\ stack_ptr = 255
    /\ status = 0
    /\ addr_mode = "Null"
    /\ pc = prog_start
    /\ hist = <<>>
    /\ log = <<>>

\* Emulator::write; the history keeps <<address, byte>>
BusWrite ==
    /\ Len(hist) < MaxBusOps
    /\ \E a \in BusAddrs, d \in BusData :
          /\ Becomes(write(Machine, a, d))
          /\ Record("write", -1, "", <<a, d>>, <<>>)

\* Emulator::read; the history keeps the address and the byte returned
BusRead ==
    /\ Len(hist) < MaxBusOps
    /\ \E a \in BusAddrs :
          LET go(r) == /\ Becomes(r.st)
                       /\ Record("read", -1, "", a, <<r.val>>)
          IN  go(bus_read(Machine, a))

\* Processor::stack_pull
BusPull ==
    /\ Len(hist) < MaxBusOps
    /\ LET go(r) == /\ Becomes(r.st)
                    /\ Record("stack_pull", -1, "", 0, <<r.val>>)
       IN  go(stack_pull(Machine))

NextBus == BusWrite \/ BusRead \/ BusPull \/ Step

SpecBus == InitBus /\ [][NextBus]_vars

----------------------------------------------------------------------------
(* Long runs: construction, then single_step calls only, on programs that   *)
(* push more bytes than the stack window holds                              *)

\* single_step calls per long run: 257 pushes and the two instructions that
\* set what is pushed
MaxRun == 259

\* n copies of seq, one after the other
repeat(seq, n) == [i \in 1..(n * Len(seq)) |-> seq[((i - 1) % Len(seq)) + 1]]

\* lda #$5A; 256 times pha; sec; php
\* and sec; 128 times (php; pha); lda #$5A; pha
LongPrograms ==
    {<<169, 90>> \o repeat(<<72>>, 256) \o <<56, 8>>,
     <<56>> \o repeat(<<8, 72>>, 128) \o <<169, 90, 72>>}

\* how many steps the run makes: MaxRun on a long program, MaxSteps on the
\* others
RunLimit ==
    IF Cardinality(DOMAIN ram.cells) > 256 THEN MaxRun ELSE MaxSteps

InitRun ==
    /\ prog_start = 512
    /\ \E image \in {"zero", "ramp"}, prog \in LongPrograms \cup Programs :
          ram = load_prog([image |-> image, cells |-> <<>>], prog_start, prog)
    /\ acc = 0
    /\ x = 0
    /\ y = 0
    /\ stack_ptr = 255
    /\ status = 0
    /\ addr_mode = "Null"
    /\ pc = prog_start
    /\ hist = <<>>
    /\ log = <<>>

\* one call of Processor::single_step in a run
Run ==
    /\ Len(hist) < RunLimit
    /\ Becomes(single_step(Machine))
    /\ Record("single_step", read(Machine, pc), "", 0, <<>>)

NextRun == Run

SpecRun == InitRun /\ [][NextRun]_vars

----------------------------------------------------------------------------
(* Properties *)

\* the last operation of the history
Last == hist[Len(hist)]

\* the last operation was the one named
After(name) == hist # <<>> /\ Last.name = name

\* an offset byte as the signed number it encodes
SignedOffset(o) == IF o >= 128 THEN o - 256 ELSE o

\* whether flag is set in status byte st
FlagIn(st, flag) == (st \div flag) % 2 = 1

\* the byte the bus returns for addr in the current state
Mem(addr) == read(Machine, addr)

\* C1: a branch whose condition is false still consumes its offset byte: BEQ
\* (opcode 0xF0) stepped with Zero clear ends with PC two past the opcode.
C1_UntakenBranchConsumesOffset ==
    (After("single_step") /\ Last.opcode = 240 /\ ~FlagIn(Last.pre.status, Zero))
    => pc = U16(Last.pre.pc + 2)

\* C2: in Relative mode get_address consumes one byte and returns the
\* sign-extended offset plus the PC after that byte, modulo 65536.
C2_RelativeAddsToNextPc ==
    (After("get_address") /\ Last.mode = "Relative")
    => /\ pc = U16(Last.pre.pc + 1)
       /\ Last.out = <<U16(SignedOffset(Mem(Last.pre.pc)) + pc)>>

\* the Relative resolution of C3: offset byte 0xFE at address 0x0201
C3_Case ==
    /\ After("get_address")
    /\ Last.mode = "Relative"
    /\ Last.pre.pc = 513
    /\ Mem(513) = 254

\* C3: offset byte 0xFE at address 0x0201 (branch opcode at 0x0200) resolves
\* to 0x0201.
C3_ResolvesTo0201 == C3_Case => Last.out = <<513>>

\* C4: JSR leaves the high byte of the return address at 0x0100|s and the low
\* byte at 0x0100|(s-1), SP = s-2 and PC = target; RTS takes the first byte
\* it pulls for the low byte and the second for the high byte.
C4_JsrPushesHighFirst ==
    /\ After("inst_jsr") =>
          /\ Mem(256 + Last.pre.stack_ptr) = U16(Last.pre.pc + 3) \div 256
          /\ Mem(256 + U8(Last.pre.stack_ptr - 1)) = U16(Last.pre.pc + 3) % 256
          /\ stack_ptr = U8(Last.pre.stack_ptr - 2)
          /\ pc = Mem(U16(Last.pre.pc + 1)) + 256 * Mem(U16(Last.pre.pc + 2))
    /\ After("inst_rts") =>
          pc = Mem(256 + U8(Last.pre.stack_ptr + 1))
               + 256 * Mem(256 + U8(Last.pre.stack_ptr + 2))

\* C5: JSR (Absolute) followed at once by RTS leaves PC three past the JSR
\* opcode and SP as it was before the JSR.
C5_JsrRtsRoundTrip ==
    (Len(hist) = 2 /\ hist[1].name = "inst_jsr" /\ hist[2].name = "inst_rts")
    => /\ pc = U16(hist[1].pre.pc + 3)
       /\ stack_ptr = hist[1].pre.stack_ptr

\* a round trip whose return address 0x0203 has distinct non-zero bytes and
\* whose pushes wrap the stack pointer past 0x00
C5_Witness ==
    /\ Len(hist) = 2
    /\ hist[1].name = "inst_jsr"
    /\ hist[2].name = "inst_rts"
    /\ hist[1].pre.pc = 512
    /\ hist[1].pre.stack_ptr = 0
    /\ pc = 515

\* C6: BIT leaves A alone and sets Zero from A & operand, Negative from bit 7
\* of the operand and Overflow from bit 6 of the operand.
C6_BitFlagsFromOperand ==
    After("inst_bit") =>
        LET operand == Mem(log[Len(log)][2])
        IN  /\ acc = Last.pre.acc
            /\ FlagIn(status, Zero) = (BitAnd(Last.pre.acc, operand) = 0)
            /\ FlagIn(status, Negative) = (operand >= 128)
            /\ FlagIn(status, Overflow) = ((operand \div 64) % 2 = 1)

\* n pushes then k pulls (operations 1..n and n+1..n+k of the history): pull
\* i returned the byte of push n - i + 1, and after as many pulls as pushes
\* SP is back where it started
LifoSoFar ==
    LET n == Len(Pushes)
        k == Len(hist) - Len(Pushes)
    IN  /\ \A i \in 1..k :
              /\ hist[n + i].name = "stack_pull"
              /\ hist[n - i + 1].name = "stack_push"
              /\ hist[n + i].out = <<hist[n - i + 1].arg>>
        /\ (n > 0 /\ k = n) => stack_ptr = hist[1].pre.stack_ptr

\* C7 as stated: for every n, n pushes then n pulls return the bytes in
\* reverse order and restore SP.
C7_LifoEveryN == LifoSoFar

\* C7 as amended: for every n up to 256 (the size of the stack window).
C7_LifoUpTo256 == Len(Pushes) <= 256 => LifoSoFar

\* 256 pushes, which wrap SP past 0x00, and 256 pulls
C7_Witness == Len(Pushes) = 256 /\ Len(Pulls) = 256 /\ stack_ptr = hist[1].pre.stack_ptr

\* C8: a push writes 0x0100 + SP and then decrements SP modulo 256, a pull
\* increments SP modulo 256 and then reads 0x0100 + SP; neither makes any
\* other bus access, so every access lies in 0x0100..0x01FF.
C8_StackStaysInPageOne ==
    /\ After("stack_push") =>
          /\ log = << <<"w", 256 + Last.pre.stack_ptr, Last.arg>> >>
          /\ stack_ptr = (Last.pre.stack_ptr + 255) % 256
    /\ After("stack_pull") =>
          /\ stack_ptr = (Last.pre.stack_ptr + 1) % 256
          /\ log = << <<"r", 256 + stack_ptr>> >>
    /\ \A i \in 1..Len(log) : log[i][2] \in 256..511

\* a push with SP = 0x00: it wrote 0x0100 and left SP = 0xFF
C8_Witness ==
    /\ After("stack_push")
    /\ Last.pre.stack_ptr = 0
    /\ stack_ptr = 255
    /\ log[1][2] = 256

\* C9: single_step of an opcode without a case advances PC by one, reads
\* nothing but the opcode byte, writes nothing and leaves A, X, Y, SP and
\* Status alone.
C9_UnassignedIsNoOp ==
    (After("single_step") /\ Last.opcode \notin Assigned)
    => /\ pc = U16(Last.pre.pc + 1)
       /\ log = << <<"r", Last.pre.pc>> >>
       /\ acc = Last.pre.acc
       /\ x = Last.pre.x
       /\ y = Last.pre.y
       /\ stack_ptr = Last.pre.stack_ptr
       /\ status = Last.pre.status

\* an unassigned opcode stepped after an instruction that loaded A
C9_Witness ==
    /\ Len(hist) = 2
    /\ Last.opcode \notin Assigned
    /\ acc # 0
    /\ status # 0

\* C10 as stated: PC after a single_step never equals PC before it.
C10_PcAlwaysMoves == After("single_step") => pc # Last.pre.pc

\* C10 as amended: PC after a single_step differs from PC before it unless
\* the step was a JMP (0x6C) or a taken BEQ (0xF0 with Zero set).
C10_PcMovesUnlessJump ==
    (/\ After("single_step")
     /\ Last.opcode # 108
     /\ ~(Last.opcode = 240 /\ FlagIn(Last.pre.status, Zero)))
    => pc # Last.pre.pc

\* a BEQ stepped with Zero clear: not taken, and PC moved
C10_Witness ==
    /\ After("single_step")
    /\ Last.opcode = 240
    /\ ~FlagIn(Last.pre.status, Zero)
    /\ pc = U16(Last.pre.pc + 1)

\* whether the last operation reported an invalid addressing mode
Diagnosed == \E i \in 1..Len(log) : log[i] = <<"diag">>

\* C11: construction or reset followed by single_step calls never invokes
\* get_address or get_data while addr_mode is Null: the "Invalid addressing
\* mode!" branch is never taken.
C11_NoInvalidModeDiagnostic == ~Diagnosed

\* a step of ORA (ind),Y after a reset: get_data and get_address ran (the
\* operand byte, the two pointer bytes and the data byte were read)
C11_Witness ==
    /\ Len(hist) = 2
    /\ hist[1].name = "reset_state"
    /\ After("single_step")
    /\ Last.opcode = 17
    /\ Len(log) = 5
    /\ ~Diagnosed

\* the first three operations were single_step calls, on the memory main
\* sets up (none of the three instructions writes memory)
MainRan ==
    /\ Len(hist) = 3
    /\ \A i \in 1..3 : hist[i].name = "single_step"
    /\ \A i \in 1..Len(MainProg) : Mem(prog_start + i - 1) = MainProg[i]
    /\ \A i \in 1..Len(MainWrites) : Mem(MainWrites[i][1]) = MainWrites[i][2]

\* C15: with [0x0003]=0x00, [0x0004]=0x05, [0x0504]=0x80 and the program
\* A9 01 A0 04 11 03 at the program start, three steps from the initial
\* state leave A = 0x81, Y = 0x04, PC = program start + 6, Negative set and
\* Zero clear.
C15_MainScenario ==
    MainRan => /\ acc = 129
               /\ y = 4
               /\ pc = U16(prog_start + 6)
               /\ FlagIn(status, Negative)
               /\ ~FlagIn(status, Zero)

\* main's three steps were run, and the last one read 0x0504
C15_Witness == MainRan /\ acc = 129 /\ log[Len(log)] = <<"r", 1284>>

\* the operation just added to the history is the one named
Did(name) == hist' # hist /\ hist'[Len(hist')].name = name

\* C18: reset_state leaves A = X = Y = 0, Status = 0, SP = 0xFF, PC = the
\* reset vector, addr_mode = Null and memory unchanged; these are the
\* registers as constructed, and a second reset_state changes nothing.
C18_ResetState ==
    [][Did("reset_state") =>
          /\ acc' = 0 /\ x' = 0 /\ y' = 0 /\ status' = 0 /\ stack_ptr' = 255
          /\ pc' = BitOr(Mem(65532), Mem(65533) * 256)
          /\ pc' = prog_start
          /\ addr_mode' = "Null"
          /\ ram' = ram
          /\ (After("reset_state") =>
                UNCHANGED <<acc, x, y, pc, stack_ptr, status, addr_mode, ram>>)
      ]_vars

\* a step that set A, Status and PC, then two resets
C18_Witness ==
    /\ Len(hist) = 3
    /\ hist[1].name = "single_step"
    /\ hist[2].name = "reset_state"
    /\ hist[3].name = "reset_state"
    /\ hist[2].pre.acc # 0
    /\ hist[2].pre.status # 0
    /\ hist[2].pre.pc # pc
    /\ hist[3].pre.pc = pc
    /\ acc = 0
    /\ status = 0

\* the pointer in the two operand bytes of the last operation
OperandWord == BitOr(Mem(Last.pre.pc), Mem(U16(Last.pre.pc + 1)) * 256)

\* C12: Indirect mode consumes a two-byte little-endian pointer ptr, reads the
\* target low byte from ptr and the high byte from ptr & 0xFF00 when the low
\* byte of ptr is 0xFF and from ptr + 1 otherwise; for ptr = 0x01FF the high
\* byte comes from 0x0100.
C12_IndirectPageWrap ==
    (After("get_address") /\ Last.mode = "Indirect")
    => LET ptr == OperandWord
           hi  == IF ptr % 256 = 255 THEN ptr - 255 ELSE U16(ptr + 1)
       IN  /\ pc = U16(Last.pre.pc + 2)
           /\ log = << <<"r", Last.pre.pc>>, <<"r", U16(Last.pre.pc + 1)>>,
                       <<"r", ptr>>, <<"r", hi>> >>
           /\ Last.out = <<Mem(ptr) + 256 * Mem(hi)>>
           /\ (ptr = 511 => log[4] = <<"r", 256>>)

\* the pointer 0x01FF, with different bytes at 0x0100 and 0x0200
C12_Witness ==
    /\ After("get_address")
    /\ Last.mode = "Indirect"
    /\ OperandWord = 511
    /\ Mem(256) # Mem(512)
    /\ Last.out = <<Mem(511) + 256 * Mem(256)>>

\* C13: ZeroPage,X and ZeroPage,Y resolve to (operand byte + X or Y) mod 256,
\* always in 0x0000..0x00FF, and consume exactly one byte; operand 0xFF with
\* X = 0x02 resolves to 0x0001.
C13_ZeroPageIndexWraps ==
    (After("get_address") /\ Last.mode \in {"ZeroPage_x", "ZeroPage_y"})
    => LET index == IF Last.mode = "ZeroPage_x" THEN Last.pre.x ELSE Last.pre.y
       IN  /\ Last.out = <<(Mem(Last.pre.pc) + index) % 256>>
           /\ Last.out[1] \in 0..255
           /\ pc = U16(Last.pre.pc + 1)
           /\ log = << <<"r", Last.pre.pc>> >>

\* operand 0xFF with X = 0x02
C13_Witness ==
    /\ After("get_address")
    /\ Last.mode = "ZeroPage_x"
    /\ Mem(Last.pre.pc) = 255
    /\ Last.pre.x = 2
    /\ Last.out = <<1>>

\* C14: Indirect,X uses zp = (operand + X) mod 256 and Indirect,Y zp =
\* operand; the target low byte is read from zp and the high byte from
\* (zp + 1) mod 256; Indirect,Y then adds Y modulo 65536; each consumes one
\* byte.
C14_IndirectIndexedInPageZero ==
    (After("get_address") /\ Last.mode \in {"Indirect_x", "Indirect_y"})
    => LET byX    == Last.mode = "Indirect_x"
           zp     == IF byX THEN (Mem(Last.pre.pc) + Last.pre.x) % 256
                     ELSE Mem(Last.pre.pc)
           target == Mem(zp) + 256 * Mem((zp + 1) % 256)
       IN  /\ pc = U16(Last.pre.pc + 1)
           /\ log = << <<"r", Last.pre.pc>>, <<"r", zp>>, <<"r", (zp + 1) % 256>> >>
           /\ Last.out = <<IF byX THEN target ELSE (target + Last.pre.y) % 65536>>

\* Indirect,Y with the pointer at 0x00FF: the high byte comes from 0x0000,
\* which differs from the byte at 0x0100, and adding Y carries out of the
\* low byte
C14_Witness ==
    /\ After("get_address")
    /\ Last.mode = "Indirect_y"
    /\ Mem(Last.pre.pc) = 255
    /\ log[3] = <<"r", 0>>
    /\ Mem(0) # Mem(256)
    /\ Mem(255) + Last.pre.y > 255
    /\ Last.out = <<(Mem(255) + 256 * Mem(0) + Last.pre.y) % 65536>>

\* the byte of the last bus write of the last operation
WrittenByte == log[Len(log)][3]

\* the last bus access of the last operation wrote back to the address the
\* access before it read
WroteBack ==
    /\ Len(log) >= 2
    /\ log[Len(log) - 1][1] = "r"
    /\ log[Len(log)] = <<"w", log[Len(log) - 1][2], WrittenByte>>

\* the instructions C16 names
SetZeroNegative ==
    Loads3 \cup Logic \cup MemorySteps \cup RegisterSteps
    \cup {"inst_tax", "inst_tay", "inst_txa", "inst_tya", "inst_tsx", "inst_pla"}

\* the value in the destination of the last instruction after it ran
Result ==
    CASE Last.name \in {"inst_lda", "inst_txa", "inst_tya", "inst_pla"} -> acc
      [] Last.name \in Logic                                           -> acc
      [] Last.name \in {"inst_ldx", "inst_tax", "inst_tsx", "inst_inx", "inst_dex"} -> x
      [] Last.name \in {"inst_ldy", "inst_tay", "inst_iny", "inst_dey"} -> y
      [] Last.name \in MemorySteps                                     -> WrittenByte

\* the value the instruction is to produce, from the registers before it and
\* the operand it fetched
Expected ==
    CASE Last.name \in Loads3     -> Last.arg
      [] Last.name = "inst_and"   -> BitAnd(Last.pre.acc, Last.arg)
      [] Last.name = "inst_ora"   -> BitOr(Last.pre.acc, Last.arg)
      [] Last.name = "inst_eor"   -> BitXor(Last.pre.acc, Last.arg)
      [] Last.name \in {"inst_tax", "inst_tay"} -> Last.pre.acc
      [] Last.name = "inst_txa"   -> Last.pre.x
      [] Last.name = "inst_tya"   -> Last.pre.y
      [] Last.name = "inst_tsx"   -> Last.pre.stack_ptr
      [] Last.name = "inst_pla"   -> Mem(256 + ((Last.pre.stack_ptr + 1) % 256))
      [] Last.name = "inst_inc"   -> (Last.arg + 1) % 256
      [] Last.name = "inst_dec"   -> (Last.arg + 255) % 256
      [] Last.name = "inst_inx"   -> (Last.pre.x + 1) % 256
      [] Last.name = "inst_dex"   -> (Last.pre.x + 255) % 256
      [] Last.name = "inst_iny"   -> (Last.pre.y + 1) % 256
      [] Last.name = "inst_dey"   -> (Last.pre.y + 255) % 256

\* C16: after every load, transfer (but TXS), PLA, logic instruction,
\* increment and decrement, Zero == (result == 0) and Negative == (bit 7 of
\* the result), the result being the value written to the destination;
\* increments and decrements wrap modulo 256.
C16_ZeroNegativeFollowResult ==
    (hist # <<>> /\ Last.name \in SetZeroNegative)
    => /\ Result = Expected
       /\ (Last.name \in MemorySteps => WroteBack)
       /\ FlagIn(status, Zero) = (Result = 0)
       /\ FlagIn(status, Negative) = (Result >= 128)

\* INC of a cell holding 0xFF, with every flag set before: 0x00 is written
\* back, Zero stays set and Negative is cleared
C16_Witness ==
    /\ After("inst_inc")
    /\ Last.arg = 255
    /\ Last.pre.status = 255
    /\ WroteBack
    /\ WrittenByte = 0
    /\ FlagIn(status, Zero)
    /\ ~FlagIn(status, Negative)

\* C17: ASL yields (v << 1) mod 256 and LSR v >> 1; ROL yields
\* ((v << 1) mod 256) | c and ROR (v >> 1) | (c << 7), c being the Carry
\* before the instruction; Carry becomes bit 7 of v for the left shifts and
\* bit 0 of v for the right shifts, and Negative bit 7 of the result.  The
\* result goes to the accumulator in Accumulator mode and to the operand's
\* cell otherwise.
C17_ShiftsAndRotates ==
    (hist # <<>> /\ Last.name \in Shifts)
    => LET v     == Last.arg
           c     == Last.pre.status % 2
           toAcc == Last.mode = "Accumulator"
           res   == IF toAcc THEN acc ELSE WrittenByte
           left  == Last.name \in {"inst_asl", "inst_rol"}
       IN  /\ res = CASE Last.name = "inst_asl" -> (v * 2) % 256
                      [] Last.name = "inst_lsr" -> v \div 2
                      [] Last.name = "inst_rol" -> ((v * 2) % 256) + c
                      [] Last.name = "inst_ror" -> (v \div 2) + 128 * c
           /\ FlagIn(status, Carry) = (IF left THEN v >= 128 ELSE v % 2 = 1)
           /\ FlagIn(status, Negative) = (res >= 128)
           /\ IF toAcc THEN Last.arg = Last.pre.acc /\ Len(log) = 1
              ELSE WroteBack /\ acc = Last.pre.acc

\* ROR of 0x01 in memory with Carry clear: the result is 0x00 and Carry is set
C17_Witness ==
    /\ After("inst_ror")
    /\ Last.mode = "ZeroPage"
    /\ Last.arg = 1
    /\ ~FlagIn(Last.pre.status, Carry)
    /\ WroteBack
    /\ WrittenByte = 0
    /\ FlagIn(status, Carry)

\* the status bit a flag instruction sets or clears
FlagOf(name) ==
    CASE name \in {"inst_sec", "inst_clc"} -> Carry
      [] name \in {"inst_sei", "inst_cli"} -> InterruptDisable
      [] name \in {"inst_sed", "inst_cld"} -> Decimal
      [] name = "inst_clv"                 -> Overflow

\* C19: SEC, SEI, SED set bit 0, 2, 3 of the status and CLC, CLI, CLD, CLV
\* clear bit 0, 2, 3, 6; the other seven status bits, A, X, Y, SP and memory
\* are unchanged and no operand byte is consumed.
C19_FlagInstructions ==
    (hist # <<>> /\ Last.name \in FlagSets \cup FlagClears)
    => /\ FlagOf(Last.name) = CASE Last.name \in {"inst_sec", "inst_clc"} -> 1
                                [] Last.name \in {"inst_sei", "inst_cli"} -> 4
                                [] Last.name \in {"inst_sed", "inst_cld"} -> 8
                                [] Last.name = "inst_clv"                 -> 64
       /\ FlagIn(status, FlagOf(Last.name)) = (Last.name \in FlagSets)
       /\ \A f \in {1, 2, 4, 8, 16, 32, 64, 128} \ {FlagOf(Last.name)} :
             FlagIn(status, f) = FlagIn(Last.pre.status, f)
       /\ acc = Last.pre.acc /\ x = Last.pre.x /\ y = Last.pre.y
       /\ stack_ptr = Last.pre.stack_ptr
       /\ pc = U16(Last.pre.pc + 1)
       /\ log = << <<"r", Last.pre.pc>> >>

\* CLV with every flag set before: only bit 6 is cleared
C19_Witness ==
    /\ After("inst_clv")
    /\ Last.pre.status = 255
    /\ status = 191

\* the status bits C20 lets an instruction change, as a mask
MayChange(name) ==
    CASE name \in SetZeroNegative -> Zero + Negative
      [] name \in Shifts          -> Carry + Negative
      [] name = "inst_bit"        -> Zero + Negative + Overflow
      [] name \in Stores \cup Branches
                  \cup {"inst_txs", "inst_pha", "inst_php", "inst_jmp",
                        "inst_jsr", "inst_rts"} -> 0

\* the instructions C20 names
Framed ==
    SetZeroNegative \cup Shifts \cup Stores \cup Branches
    \cup {"inst_bit", "inst_txs", "inst_pha", "inst_php", "inst_jmp",
          "inst_jsr", "inst_rts"}

\* C20: loads, transfers but TXS, PLA, logic instructions, increments and
\* decrements change at most Zero and Negative; shifts and rotates at most
\* Carry and Negative; BIT at most Zero, Negative and Overflow; stores, TXS,
\* PHA, PHP, JMP, JSR, RTS and the branches change no status bit.
C20_OnlyDocumentedFlagsChange ==
    (hist # <<>> /\ Last.name \in Framed)
    => BitAnd(status, 255 - MayChange(Last.name))
         = BitAnd(Last.pre.status, 255 - MayChange(Last.name))

\* TXS of 0x00 with every flag set: SP = 0x00 and the status is untouched
C20_Witness ==
    /\ After("inst_txs")
    /\ Last.pre.x = 0
    /\ Last.pre.status = 255
    /\ stack_ptr = 0
    /\ status = 255

\* the number of operand bytes that follow the opcode in an addressing mode
OperandLength(mode) ==
    CASE mode \in {"Implied", "Accumulator"} -> 0
      [] mode \in {"Immediate", "ZeroPage", "ZeroPage_x", "ZeroPage_y",
                   "Indirect_x", "Indirect_y"} -> 1
      [] mode \in {"Absolute", "Absolute_x", "Absolute_y"} -> 2

\* the last operation was a single_step of an assigned opcode other than JMP
\* (0x6C) and BEQ (0xF0)
SteppedInLine ==
    After("single_step") /\ Last.opcode \in Assigned \ {108, 240}

\* how many bus reads of addr the last operation made
Reads(addr) == Cardinality({i \in 1..Len(log) : log[i] = <<"r", addr>>})

\* the step moved PC past the opcode and the operand bytes of its mode
PcPastOperands == pc = U16(Last.pre.pc + 1 + OperandLength(addr_mode))

\* C21 as stated: a step of an assigned opcode that is not a jump or branch
\* leaves PC at PC before + 1 + the operand length of its mode, mod 65536,
\* and reads each of those instruction bytes from the bus exactly once.
C21_StreamBytesReadOnce ==
    SteppedInLine
    => /\ PcPastOperands
       /\ \A i \in 0..OperandLength(addr_mode) : Reads(U16(Last.pre.pc + i)) = 1

\* C21 as amended: PC moves as stated, and the first 1 + operand length bus
\* accesses of the step are the reads of the opcode and operand bytes, in
\* order; a later access of the step reads one of those addresses again only
\* as the address the operand resolved to or passed through.
C21_StreamBytesFetchedOnce ==
    SteppedInLine
    => LET n == OperandLength(addr_mode)
       IN  /\ PcPastOperands
           /\ Len(log) >= n + 1
           /\ \A i \in 0..n : log[i + 1] = <<"r", U16(Last.pre.pc + i)>>
           /\ (addr_mode \in {"Implied", "Accumulator", "Immediate"}
                  => \A i \in 0..n : Reads(U16(Last.pre.pc + i)) = 1)

\* a step of ROL abs,X: three bytes fetched in order, then the operand read
\* and written back elsewhere
C21_Witness ==
    /\ SteppedInLine
    /\ Last.opcode = 62
    /\ pc = U16(Last.pre.pc + 3)
    /\ Len(log) = 5
    /\ Reads(Last.pre.pc) = 1

\* the operation just added to the history is a bus write to an address of
\* the given set
Wrote(addrs) == Did("write") /\ hist'[Len(hist')].arg[1] \in addrs

\* the cells of ram that were ever assigned in one of two memories (every
\* other cell holds the byte it held at construction in both)
CellsAssigned(r1, r2) == (DOMAIN r1.cells) \cup (DOMAIN r2.cells)

\* the byte the bus holds at an address outside RAM
Unmapped(a) ==
    IF a = 65532 THEN prog_start % 256
    ELSE IF a = 65533 THEN prog_start \div 256
    ELSE 0

\* C22: a bus write to an address in 0x2000..0xFFFF changes nothing: every
\* address reads as before and no register changes; a read outside RAM
\* returns 0, but at 0xFFFC and 0xFFFD the low and high byte of the program
\* start, whatever was written or stepped before.
C22_UnmappedWritesIgnored ==
    /\ [](\A a \in BusAddrs : a >= 8192 => Mem(a) = Unmapped(a))
    /\ []((After("read") /\ Last.arg >= 8192) => Last.out = <<Unmapped(Last.arg)>>)
    /\ [][Wrote(8192..65535) =>
             /\ \A a \in BusAddrs \cup CellsAssigned(ram, ram') : Mem(a)' = Mem(a)
             /\ UNCHANGED <<acc, x, y, pc, stack_ptr, status, addr_mode>>
         ]_vars

\* 0xFFFC was written, and then read as the low byte of the program start,
\* which is neither 0 nor the byte written
C22_Witness ==
    /\ Len(hist) = 2
    /\ hist[1].name = "write"
    /\ hist[1].arg[1] = 65532
    /\ After("read")
    /\ Last.arg = 65532
    /\ Last.out = <<prog_start % 256>>
    /\ Last.out[1] \notin {0, hist[1].arg[2]}

\* C23: INC and DEC fetch the operand bytes of their mode once, read the
\* operand, and write (operand + 1) mod 256 resp. (operand - 1) mod 256 back
\* to the address it was read from; PC advances by 1 + the operand length;
\* no other memory cell changes, and A, X, Y and SP are unchanged.
C23_IncDecResolveOnce ==
    [][(Did("inst_inc") \/ Did("inst_dec")) =>
          LET n     == OperandLength(addr_mode')
              w     == log'[Len(log')]
              delta == IF Did("inst_inc") THEN 1 ELSE 255
          IN  /\ Len(log') = n + 3
              /\ \A i \in 0..n : log'[i + 1] = <<"r", U16(pc + i)>>
              /\ log'[n + 2] = <<"r", w[2]>>
              /\ w = <<"w", w[2], (Mem(w[2]) + delta) % 256>>
              /\ (w[2] <= 8191 => ram_get(ram', w[2] % 2048) = w[3])
              /\ pc' = U16(pc + 1 + n)
              /\ UNCHANGED <<acc, x, y, stack_ptr>>
              /\ \A i \in CellsAssigned(ram, ram') \ {w[2] % 2048} :
                    ram_get(ram', i) = ram_get(ram, i)
      ]_vars

\* DEC of a cell holding 0x00 in Absolute mode: 0xFF is written back to the
\* cell read, PC is three past the opcode, and the operand bytes are intact
C23_Witness ==
    /\ After("inst_dec")
    /\ Last.mode = "Absolute"
    /\ Last.arg = 0
    /\ WroteBack
    /\ WrittenByte = 255
    /\ pc = U16(Last.pre.pc + 3)
    /\ Mem(log[4][2]) = 255
    /\ log[2] = <<"r", U16(Last.pre.pc + 1)>>

\* the operation just added to the history is a shift or rotate
DidShift == \E name \in Shifts : Did(name)

\* the byte a shift or rotate makes of v when Carry holds c
ShiftResult(name, v, c) ==
    CASE name = "inst_asl" -> (v * 2) % 256
      [] name = "inst_lsr" -> v \div 2
      [] name = "inst_rol" -> ((v * 2) % 256) + c
      [] name = "inst_ror" -> (v \div 2) + 128 * c

\* the bus writes among the accesses of the operation just done
WritesDone == SelectSeq(log', LAMBDA e : e[1] = "w")

\* C24: ASL, LSR, ROL and ROR change exactly one target: in Accumulator mode
\* A takes the result, no bus write is issued and memory is unchanged; in a
\* memory mode the one bus write goes to the address the operand was read
\* from, only that cell changes, and A is unchanged.
C24_ShiftsChangeOneTarget ==
    [][DidShift =>
          LET n      == OperandLength(addr_mode')
              res(v) == ShiftResult(hist'[Len(hist')].name, v, status % 2)
          IN  IF addr_mode' = "Accumulator"
              THEN /\ acc' = res(acc)
                   /\ WritesDone = <<>>
                   /\ ram' = ram
                   /\ hist'[Len(hist')].arg = acc
                   /\ Len(log') = 1
              ELSE /\ acc' = acc
                   /\ Len(log') = n + 3
                   /\ log'[n + 2][1] = "r"
                   /\ WritesDone = << <<"w", log'[n + 2][2], log'[n + 3][3]>> >>
                   /\ log'[n + 3] = WritesDone[1]
                   /\ log'[n + 3][3] = res(Mem(log'[n + 2][2]))
                   /\ \A i \in CellsAssigned(ram, ram') \ {log'[n + 2][2] % 2048} :
                         ram_get(ram', i) = ram_get(ram, i)
                   /\ ram_get(ram', log'[n + 2][2] % 2048) = log'[n + 3][3]
      ]_vars

\* ASL of 0x55 in the accumulator, which then differs from what it was, with
\* no bus access but the opcode fetch
C24_Witness ==
    /\ After("inst_asl")
    /\ Last.mode = "Accumulator"
    /\ Last.pre.acc = 85
    /\ acc = 170
    /\ Len(log) = 1

\* the standard 6502 addressing mode of the assigned opcodes
ModeOf(opcode) ==
    CASE opcode \in {8, 56, 72}             -> "Implied"
      [] opcode = 10                        -> "Accumulator"
      [] opcode \in {41, 160, 162, 169}     -> "Immediate"
      [] opcode \in {6, 165}                -> "ZeroPage"
      [] opcode = 86                        -> "ZeroPage_x"
      [] opcode = 182                       -> "ZeroPage_y"
      [] opcode = 240                       -> "Relative"
      [] opcode = 14                        -> "Absolute"
      [] opcode = 62                        -> "Absolute_x"
      [] opcode = 153                       -> "Absolute_y"
      [] opcode = 108                       -> "Indirect"
      [] opcode = 129                       -> "Indirect_x"
      [] opcode = 17                        -> "Indirect_y"
      [] OTHER                              -> "Null"

\* the standard 6502 instruction of the assigned opcodes
InstOf(opcode) ==
    CASE opcode \in {6, 10, 14}   -> "inst_asl"
      [] opcode = 8               -> "inst_php"
      [] opcode = 17              -> "inst_ora"
      [] opcode = 41              -> "inst_and"
      [] opcode = 56              -> "inst_sec"
      [] opcode = 62              -> "inst_rol"
      [] opcode = 72              -> "inst_pha"
      [] opcode = 86              -> "inst_lsr"
      [] opcode = 108             -> "inst_jmp"
      [] opcode \in {129, 153}    -> "inst_sta"
      [] opcode = 160             -> "inst_ldy"
      [] opcode \in {162, 182}    -> "inst_ldx"
      [] opcode \in {165, 169}    -> "inst_lda"
      [] opcode = 240             -> "inst_beq"

\* the variables take, in the next state, the values of machine state s
Became(s) ==
    /\ acc' = s.acc /\ x' = s.x /\ y' = s.y /\ pc' = s.pc
    /\ stack_ptr' = s.stack_ptr /\ status' = s.status
    /\ addr_mode' = s.addr_mode /\ ram' = s.ram /\ log' = s.log

\* C25: a step of an assigned opcode does what the standard instruction of
\* that opcode does in the standard mode of that opcode, whatever the
\* registers, the memory and the mode of the step before; after any step
\* addr_mode is that mode, or Null for an opcode without a case.
C25_DispatchIsStandard ==
    [][Did("single_step") =>
          /\ addr_mode' = ModeOf(Mem(pc))
          /\ (Mem(pc) \in Assigned) = (ModeOf(Mem(pc)) # "Null")
          /\ IF Mem(pc) \in Assigned
             THEN Became(execute(Machine, ModeOf(Mem(pc)), InstOf(Mem(pc))))
             ELSE Became(step_fetch(Machine).st)
      ]_vars

\* ORA (zp),Y (0x11) stepped after LDY # left Immediate mode and a
\* non-zero Y: the operand is read at the pointer's target plus Y
C25_Witness ==
    /\ Len(hist) = 2
    /\ After("single_step")
    /\ hist[1].opcode = 160
    /\ Last.opcode = 17
    /\ Last.pre.addr_mode = "Immediate"
    /\ Last.pre.y # 0
    /\ addr_mode = "Indirect_y"
    /\ Len(log) = 5
    /\ log[5] = <<"r", U16(Mem(log[3][2]) + 256 * Mem(log[4][2]) + y)>>

\* the addresses of 0x0000..0x1FFF that share the low eleven bits of a
Mirrors(a) == {(a % 2048) + 2048 * k : k \in 0..3}

\* the address and the byte of the bus write just added to the history
WriteDone == hist'[Len(hist')].arg

\* C26: every address a of 0x0000..0x1FFF reads as a & 0x07FF does; a write
\* to such an address is read back at each of its four mirrors and changes
\* the byte read at no other address; a write to the mirror of the stack
\* cell above SP is what the next stack pull returns.
C26_RamMirrored ==
    /\ [](\A a \in BusAddrs : a <= 8191 => Mem(a) = Mem(a % 2048))
    /\ []((After("read") /\ Last.arg <= 8191) => Last.out = <<Mem(Last.arg % 2048)>>)
    /\ [][Wrote(0..8191) =>
             \A b \in BusAddrs \cup CellsAssigned(ram, ram') \cup Mirrors(WriteDone[1]) :
                Mem(b)' = IF b \in Mirrors(WriteDone[1]) THEN WriteDone[2] ELSE Mem(b)
         ]_vars
    /\ []((/\ Len(hist) >= 2
           /\ After("stack_pull")
           /\ hist[Len(hist) - 1].name = "write"
           /\ hist[Len(hist) - 1].arg[1] \in Mirrors(256 + stack_ptr))
          => Last.out = <<hist[Len(hist) - 1].arg[2]>>)

\* 0x5A written to 0x0900, a mirror of the stack cell 0x0100, and then
\* pulled from the stack, where another byte was before
C26_Witness ==
    /\ Len(hist) = 2
    /\ hist[1].name = "write"
    /\ hist[1].arg = <<2304, 90>>
    /\ After("stack_pull")
    /\ Last.pre.stack_ptr = 255
    /\ Last.out = <<90>>
    /\ image_byte(ram.image, 256) # 90

\* the steps of the history that executed PHP (0x08) or PHA (0x48)
PushSteps == SelectSeq(hist, LAMBDA h : h.opcode \in {8, 72})

\* C27: from construction on, through single_step calls only, a step leaves
\* SP unchanged unless its opcode is 0x08 or 0x48, which write Status resp. A
\* at 0x0100 | SP and then decrement SP by one modulo 256; after k such steps
\* SP = (0xFF - k) mod 256, and the 257th of them writes to the address the
\* first one wrote to.
C27_StackOnlyDescends ==
    /\ stack_ptr = U8(255 - Len(PushSteps))
    /\ After("single_step") =>
          IF Last.opcode \in {8, 72}
          THEN /\ stack_ptr = U8(Last.pre.stack_ptr - 1)
               /\ log = << <<"r", Last.pre.pc>>,
                           <<"w", 256 + Last.pre.stack_ptr,
                             IF Last.opcode = 8 THEN Last.pre.status
                                                ELSE Last.pre.acc>> >>
          ELSE stack_ptr = Last.pre.stack_ptr
    /\ (After("single_step") /\ Last.opcode \in {8, 72} /\ Len(PushSteps) = 257)
          => /\ log[2][2] = 256 + PushSteps[1].pre.stack_ptr
             /\ Mem(256 + PushSteps[1].pre.stack_ptr) = log[2][3]

\* the 257th push: PHP writes the status 0x01 to 0x01FF, where the first
\* push (PHA) had written 0x5A, and SP is 0xFE
C27_Witness ==
    /\ Len(PushSteps) = 257
    /\ After("single_step")
    /\ Last.opcode = 8
    /\ PushSteps[1].opcode = 72
    /\ PushSteps[1].pre.acc = 90
    /\ log[2] = <<"w", 511, 1>>
    /\ Mem(511) = 1
    /\ stack_ptr = 254

====
